---- MODULE Spec2Model ----
(***************************************************************************)
(* A model of the CommonGo helper library: the typed environment getters   *)
(* (package config), the HTTP request-logging middleware, the JSON         *)
(* response helpers and the router factory (package httpx), the gRPC       *)
(* server factory with its logging interceptors (package grpcx), the       *)
(* connection-pool factory (package postgres) and the loggers carried by   *)
(* contexts (package logger).                                              *)
(*                                                                         *)
(* Strings are sequences of one-character strings, so that the parsers of  *)
(* the getters can be modelled character by character.                     *)
(***************************************************************************)
EXTENDS Integers, Sequences, FiniteSets, TLC

VARIABLES
    intSize,    \* strconv.IntSize of the build: 32 or 64
    env,        \* the process environment: key -> Unset or a string
    ret,        \* the last getter call: its name, arguments and result
    mw,         \* the request-logging middleware installed, and its SkipPaths
    pc,         \* per request: where its handling stands
    req,        \* per request: the request as it reached the middleware
    ctxLog,     \* per request: the logger in the context the next handler sees
    ww,         \* per request: the response writer the next handler writes to
    trace,      \* per request: what the middleware did, in order
    logs,       \* the log lines emitted so far, in order
    call,       \* the last response helper called, with its arguments
    resp,       \* the http.ResponseWriter that call wrote to
    opts,       \* the Options NewServer was called with
    extra,      \* the extra server options NewServer was called with
    step,       \* where the call of NewServer stands
    serverOpts, \* NewServer's list of server options, as built so far
    server,     \* the grpc.Server NewServer built, NoServer before
    effects,    \* the grpc calls NewServer has made, in order
    result,     \* what NewServer returned
    rpc,        \* per call: its kind and its incoming context
    rpcPc,      \* per call: where its handling stands
    rpcErr,     \* per call: the error its handler returned
    handlerCalls, \* per call: how often the interceptor invoked the handler
    rpcTrace,   \* per call: what happened, in order
    grpcLogs,   \* the lines the interceptors wrote, in order
    crashed,    \* a handler panic has ended the process
    pgCfg,      \* the Config postgres.Open was called with
    pgStep,     \* where the call of Open stands
    poolCfg,    \* the pgxpool config Open has built
    pool,       \* the pool Open created: whether it exists, how often it was closed
    pgCalls,    \* how often Open has called ParseConfig, NewWithConfig and Ping
    pgResult,   \* what Open returned
    nodes,      \* the contexts made so far: each with its parent, who made it, and the value it adds
    derived,    \* the last derivation: the function called, its parent and its child
    routerOpts, \* the options NewRouter was called with
    mux,        \* the chi.Mux NewRouter is building: its middlewares and whether it has routes
    applied,    \* the options NewRouter has applied, by position, in order
    rtStep,     \* where the call of NewRouter stands
    rtResult    \* whether NewRouter has returned the mux

envVars == <<intSize, env, ret>>
httpVars == <<mw, pc, req, ctxLog, ww, trace, logs>>
renderVars == <<call, resp>>
serverVars == <<opts, extra, step, serverOpts, server, effects, result>>
grpcVars == <<rpc, rpcPc, rpcErr, handlerCalls, rpcTrace, grpcLogs, crashed>>
pgVars == <<pgCfg, pgStep, poolCfg, pool, pgCalls, pgResult>>
ctxVars == <<nodes, derived>>
routerVars == <<routerOpts, mux, applied, rtStep, rtResult>>

vars == <<envVars, httpVars, renderVars, serverVars, grpcVars, pgVars, ctxVars, routerVars>>

-----------------------------------------------------------------------------
(* Bounds of the model.                                                    *)

\* The longest environment value enumerated over Alphabet.
MaxLen == 2

\* How many times a handler may call Write on its response writer.
MaxWrites == 1

-----------------------------------------------------------------------------
(* Strings.                                                                *)

Digits == {"0", "1", "2", "3", "4", "5", "6", "7", "8", "9"}

DigitVal(c) ==
    CASE c = "0" -> 0 [] c = "1" -> 1 [] c = "2" -> 2 [] c = "3" -> 3
      [] c = "4" -> 4 [] c = "5" -> 5 [] c = "6" -> 6 [] c = "7" -> 7
      [] c = "8" -> 8 [] c = "9" -> 9

\* The characters short environment values are built from.
Alphabet == {"-", "0", "1", "9", ".", "s", "m", "t"}

StrsUpTo(n) == UNION {[1..k -> Alphabet] : k \in 0..n}

DropFirst(s, k) == SubSeq(s, k + 1, Len(s))

\* Longer environment values: the literals of each parser and their edges.
Literals ==
    { <<"t","r","u","e">>, <<"T","R","U","E">>, <<"T","r","u","e">>,
      <<"f","a","l","s","e">>, <<"F","A","L","S","E">>, <<"F","a","l","s","e">>,
      <<"T">>, <<"f">>, <<"F">>, <<"y","e","s">>, <<"t","R","U","E">>,
      <<"+","7">>, <<"0","0","7">>, <<"-","0">>, <<"8","0","8","0">>, <<"1","_","0">>,
      <<" ","1">>, <<"0","x","1","0">>, <<"1","e","3">>,
      <<"2","1","4","7","4","8","3","6","4","7">>,
      <<"2","1","4","7","4","8","3","6","4","8">>,
      <<"-","2","1","4","7","4","8","3","6","4","8">>,
      <<"-","2","1","4","7","4","8","3","6","4","9">>,
      <<"9","2","2","3","3","7","2","0","3","6","8","5","4","7","7","5","8","0","7">>,
      <<"9","2","2","3","3","7","2","0","3","6","8","5","4","7","7","5","8","0","8">>,
      <<"-","9","2","2","3","3","7","2","0","3","6","8","5","4","7","7","5","8","0","8">>,
      <<"1","h">>, <<"1",".","5","h">>, <<"1","h","3","0","m">>, <<"3","0","0","m","s">>,
      <<"5","n","s">>, <<"2","u","s">>, <<"-","1",".","5","s">>, <<"+","2","m">>,
      <<".","5","s">>, <<"1",".","s">>, <<"1","s","x">>, <<"1","d">>, <<"5"," ","s">>,
      <<"1","m","0",".","2","5","s">> }

EnvValues == StrsUpTo(MaxLen) \cup Literals

Unset == [set |-> FALSE, val |-> <<>>]
Set(v) == [set |-> TRUE, val |-> v]

Keys == {"A", "B"}

-----------------------------------------------------------------------------
(* The parsers the getters delegate to (strconv and time), modelled by     *)
(* what they do on a string.  An integer is kept as its sign and its       *)
(* canonical decimal magnitude (no leading zeros), so that 64-bit values   *)
(* are exact; a duration is kept as whole seconds and nanoseconds.         *)

\* A parser returns (value, nil) or (_, err).
Ok(v) == [val |-> v, ok |-> TRUE]
SyntaxErr == [ok |-> FALSE, err |-> "ErrSyntax"]
RangeErr == [ok |-> FALSE, err |-> "ErrRange"]

MinOf(S) == CHOOSE i \in S : \A j \in S : i <= j

RECURSIVE LexLess(_, _)
\* a < b for two digit strings of the same length
LexLess(a, b) ==
    IF a = <<>> THEN FALSE
    ELSE IF a[1] # b[1] THEN DigitVal(a[1]) < DigitVal(b[1])
    ELSE LexLess(Tail(a), Tail(b))

\* a < b for two canonical magnitudes
MagLess(a, b) == Len(a) < Len(b) \/ (Len(a) = Len(b) /\ LexLess(a, b))

\* 1 << (bitSize - 1), the cutoff of strconv.ParseInt
Cutoff(bitSize) ==
    IF bitSize = 32
    THEN <<"2","1","4","7","4","8","3","6","4","8">>
    ELSE <<"9","2","2","3","3","7","2","0","3","6","8","5","4","7","7","5","8","0","8">>

MaxUint64 ==
    <<"1","8","4","4","6","7","4","4","0","7","3","7","0","9","5","5","1","6","1","5">>

RECURSIVE ScanDigits(_, _)
\* the digit loop of strconv.ParseUint in base 10: acc is the value so far
ScanDigits(s, acc) ==
    IF s = <<>> THEN Ok(acc)
    ELSE IF s[1] \notin Digits THEN SyntaxErr
    ELSE ScanDigits(Tail(s), IF acc = <<"0">> THEN <<s[1]>> ELSE Append(acc, s[1]))

\* strconv.ParseUint(s, 10, 64): the magnitude, or an error
ParseUint(s) ==
    IF s = <<>> THEN SyntaxErr
    ELSE LET n == ScanDigits(s, <<"0">>)
         IN  IF ~n.ok THEN SyntaxErr
             ELSE IF MagLess(MaxUint64, n.val) THEN RangeErr
             ELSE n

\* strconv.ParseInt(s, 10, bitSize): the value, or an error
ParseInt(s, bitSize) ==
    IF s = <<>> THEN SyntaxErr
    ELSE LET neg == s[1] = "-"
             s1  == IF s[1] \in {"+", "-"} THEN Tail(s) ELSE s
             r   == ParseUint(s1)
             un  == IF r.ok THEN r.val ELSE MaxUint64
         IN  IF ~r.ok /\ r.err # "ErrRange" THEN r
             ELSE IF ~neg /\ ~MagLess(un, Cutoff(bitSize)) THEN RangeErr
             ELSE IF neg /\ MagLess(Cutoff(bitSize), un) THEN RangeErr
             ELSE Ok([neg |-> neg /\ un # <<"0">>, mag |-> un])

\* strconv.Atoi(s): ParseInt(s, 10, 0), the size of int being that of the build
Atoi(s) == ParseInt(s, intSize)

\* strconv.ParseBool(str)
ParseBool(str) ==
    IF str \in { <<"1">>, <<"t">>, <<"T">>, <<"T","R","U","E">>,
                 <<"t","r","u","e">>, <<"T","r","u","e">> } THEN Ok(TRUE)
    ELSE IF str \in { <<"0">>, <<"f">>, <<"F">>, <<"F","A","L","S","E">>,
                      <<"f","a","l","s","e">>, <<"F","a","l","s","e">> } THEN Ok(FALSE)
    ELSE SyntaxErr

RECURSIVE NumOf(_)
\* the number a short digit string denotes
NumOf(ds) ==
    IF ds = <<>> THEN 0
    ELSE NumOf(SubSeq(ds, 1, Len(ds) - 1)) * 10 + DigitVal(ds[Len(ds)])

RECURSIVE Pow10(_)
Pow10(k) == IF k = 0 THEN 1 ELSE 10 * Pow10(k - 1)

NanosPerSecond == 1000 * 1000 * 1000

\* how many leading characters of s are digits
LeadingDigits(s) ==
    LET nd == {i \in 1..Len(s) : s[i] \notin Digits}
    IN  IF nd = {} THEN Len(s) ELSE MinOf(nd) - 1

\* how many leading characters of s belong to a unit (neither "." nor a digit)
UnitLen(s) ==
    LET st == {i \in 1..Len(s) : s[i] = "." \/ s[i] \in Digits}
    IN  IF st = {} THEN Len(s) ELSE MinOf(st) - 1

\* unitMap of package time, a unit in seconds or in nanoseconds
UnitMap(u) ==
    CASE u = <<"n","s">> -> Ok([sec |-> 0, ns |-> 1])
      [] u = <<"u","s">> -> Ok([sec |-> 0, ns |-> 1000])
      [] u = <<"m","s">> -> Ok([sec |-> 0, ns |-> 1000 * 1000])
      [] u = <<"s">>     -> Ok([sec |-> 1, ns |-> 0])
      [] u = <<"m">>     -> Ok([sec |-> 60, ns |-> 0])
      [] u = <<"h">>     -> Ok([sec |-> 3600, ns |-> 0])
      [] OTHER           -> SyntaxErr

\* v * unit + f * unit / scale, in seconds and nanoseconds
TermValue(v, f, scale, unit) ==
    IF unit.sec > 0
    THEN [sec |-> v * unit.sec + (f * unit.sec) \div scale,
          ns  |-> ((f * unit.sec) % scale) * (NanosPerSecond \div scale)]
    ELSE LET n == v * unit.ns + (f * unit.ns) \div scale
         IN  [sec |-> n \div NanosPerSecond, ns |-> n % NanosPerSecond]

AddDur(a, b) ==
    [sec |-> a.sec + b.sec + (a.ns + b.ns) \div NanosPerSecond,
     ns  |-> (a.ns + b.ns) % NanosPerSecond]

RECURSIVE DurationTerms(_, _)
\* the loop of time.ParseDuration over [0-9]*(\.[0-9]*)?[a-z]+ terms: d is the sum so far
DurationTerms(s, d) ==
    IF s = <<>> THEN Ok(d)
    ELSE IF ~(s[1] = "." \/ s[1] \in Digits) THEN SyntaxErr
    ELSE LET il   == LeadingDigits(s)
             s2   == DropFirst(s, il)
             dot  == s2 # <<>> /\ s2[1] = "."
             s3   == IF dot THEN Tail(s2) ELSE s2
             fl   == IF dot THEN LeadingDigits(s3) ELSE 0
             s4   == DropFirst(s3, fl)
             ul   == UnitLen(s4)
             unit == UnitMap(SubSeq(s4, 1, ul))
         IN  IF il = 0 /\ fl = 0 THEN SyntaxErr
             ELSE IF ul = 0 THEN SyntaxErr
             ELSE IF ~unit.ok THEN SyntaxErr
             ELSE DurationTerms(DropFirst(s4, ul),
                      AddDur(d, TermValue(NumOf(SubSeq(s, 1, il)),
                                          NumOf(SubSeq(s3, 1, fl)), Pow10(fl), unit.val)))

\* time.ParseDuration(s): the duration, or an error
ParseDuration(s) ==
    LET neg == s # <<>> /\ s[1] = "-"
        s1  == IF s # <<>> /\ s[1] \in {"+", "-"} THEN Tail(s) ELSE s
        r   == IF s1 = <<"0">> THEN Ok([sec |-> 0, ns |-> 0])
               ELSE IF s1 = <<>> THEN SyntaxErr
               ELSE DurationTerms(s1, [sec |-> 0, ns |-> 0])
    IN  IF ~r.ok THEN r
        ELSE Ok([neg |-> neg /\ (r.val.sec # 0 \/ r.val.ns # 0),
                 sec |-> r.val.sec, ns |-> r.val.ns])

-----------------------------------------------------------------------------
(* The typed getters of package config.                                    *)

\* os.Getenv(key): the value, or "" when the variable is not set
Getenv(key) == IF env[key].set THEN env[key].val ELSE <<>>

\* GetEnv with the test for a set variable in place of the test for a non-empty value.
GetEnvLookup(key, defaultValue) ==
    IF env[key].set THEN env[key].val ELSE defaultValue

GetEnv(key, defaultValue) ==
    LET value == Getenv(key)
    IN  IF value # <<>> THEN value ELSE defaultValue

GetEnvInt(key, defaultValue) ==
    LET value == Getenv(key)
    IN  IF value # <<>> /\ Atoi(value).ok THEN Atoi(value).val ELSE defaultValue

GetEnvInt32(key, defaultValue) ==
    LET value == Getenv(key)
    IN  IF value # <<>> /\ ParseInt(value, 32).ok THEN ParseInt(value, 32).val
        ELSE defaultValue

GetEnvDuration(key, defaultValue) ==
    LET value == Getenv(key)
    IN  IF value # <<>> /\ ParseDuration(value).ok THEN ParseDuration(value).val
        ELSE defaultValue

GetEnvBool(key, defaultValue) ==
    LET value == Getenv(key)
    IN  IF value # <<>> /\ ParseBool(value).ok THEN ParseBool(value).val
        ELSE defaultValue

Getters == {"GetEnv", "GetEnvInt", "GetEnvInt32", "GetEnvDuration", "GetEnvBool"}

IntOf(neg, mag) == [neg |-> neg, mag |-> mag]
DurOf(neg, sec, ns) == [neg |-> neg, sec |-> sec, ns |-> ns]

\* The defaults a caller passes, per getter.
Defaults(fn) ==
    CASE fn = "GetEnv"         -> { <<"d","f","l","t">>, <<>> }
      [] fn = "GetEnvInt"      -> { IntOf(FALSE, <<"4","2">>), IntOf(TRUE, <<"1">>) }
      [] fn = "GetEnvInt32"    -> { IntOf(FALSE, <<"4","2">>), IntOf(FALSE, <<"0">>) }
      [] fn = "GetEnvDuration" -> { DurOf(FALSE, 30, 0), DurOf(FALSE, 0, 0) }
      [] fn = "GetEnvBool"     -> { TRUE, FALSE }

NoCall == [fn |-> "none"]

Call(fn, key, def, val) ==
    /\ ret' = [val |-> val, key |-> key, fn |-> fn, def |-> def]
    /\ UNCHANGED <<intSize, env>>
    /\ UNCHANGED <<httpVars, renderVars, serverVars, grpcVars, pgVars, ctxVars, routerVars>>

CallGetEnv ==
    \E k \in Keys, d \in Defaults("GetEnv") : Call("GetEnv", k, d, GetEnv(k, d))

CallGetEnvInt ==
    \E k \in Keys, d \in Defaults("GetEnvInt") : Call("GetEnvInt", k, d, GetEnvInt(k, d))

CallGetEnvInt32 ==
    \E k \in Keys, d \in Defaults("GetEnvInt32") :
        Call("GetEnvInt32", k, d, GetEnvInt32(k, d))

CallGetEnvDuration ==
    \E k \in Keys, d \in Defaults("GetEnvDuration") :
        Call("GetEnvDuration", k, d, GetEnvDuration(k, d))

CallGetEnvBool ==
    \E k \in Keys, d \in Defaults("GetEnvBool") :
        Call("GetEnvBool", k, d, GetEnvBool(k, d))

-----------------------------------------------------------------------------
(* The request-logging middleware of package httpx.  Each request is       *)
(* served on its own goroutine; the log output is shared.                  *)

Reqs == {"r1", "r2"}

\* The status codes a handler writes.
Statuses == {200, 399, 400, 404, 499, 500}

\* The bytes one Write of a handler carries.
ChunkLen == 5

\* A logger: where it came from and the fields added to it.  Nop is what
\* logger.From gives for a context no logger was attached to.
Logger(base, rid, path, ua) == [base |-> base, path |-> path, ua |-> ua, request_id |-> rid]
Nop == Logger("nop", "", "", FALSE)
Upstream == Logger("upstream", "", "", FALSE)

NoReq == [rid |-> "", path |-> "", prior |-> Nop]

\* The requests that arrive: a path, the request ID in the context, and the
\* logger an outer layer attached to the context (Nop when none did).
Arrivals ==
    { [rid |-> "", path |-> "/health", prior |-> Nop],
      [rid |-> "id-1", path |-> "/health", prior |-> Upstream],
      [rid |-> "", path |-> "/api", prior |-> Upstream],
      [rid |-> "id-1", path |-> "/api", prior |-> Nop] }

\* A response writer: the one the server gave ("orig") or the status-capturing
\* wrapper of middleware.NewWrapResponseWriter ("wrap").
Writer(kind) == [kind |-> kind, wroteHeader |-> FALSE, code |-> 0, bytes |-> 0, writes |-> 0]

\* WriteHeader on a writer: only the first call sets the status.
WriteHeader(w, code) ==
    IF w.wroteHeader THEN w ELSE [w EXCEPT !.wroteHeader = TRUE, !.code = code]

\* Write on a writer: sends the header with 200 if none was sent, counts the bytes.
Write(w, n) ==
    LET h == WriteHeader(w, 200)
    IN  [h EXCEPT !.bytes = @ + n, !.writes = @ + 1]

\* The severity of the completion line (RequestLogger).
EventLevel(status) ==
    IF status >= 500 THEN "error"
    ELSE IF status >= 400 THEN "warn"
    ELSE "info"

\* The severity with the client-error band starting above 400.
EventLevelAbove(status) ==
    IF status >= 500 THEN "error"
    ELSE IF status > 400 THEN "warn"
    ELSE "info"

\* The severity of the completion line (RequestLoggerWithOpts).
EventLevelOpts(status) ==
    IF status >= 500 THEN "error"
    ELSE IF status >= 400 THEN "warn"
    ELSE "info"

\* A skip test that no path passes.
SkippedNever(path) == FALSE

\* skipMap[r.URL.Path]
Skipped(path) == path \in mw.skipPaths

\* requestID := middleware.GetReqID(r.Context()), "unknown" when empty
RequestID(rid) == IF rid = "" THEN "unknown" ELSE rid

\* RequestLogger up to its call of the next handler: derives the per-request
\* logger, attaches it to the context, wraps the writer, calls next.
RequestLoggerEnter(r) ==
    /\ mw.kind = "RequestLogger"
    /\ pc[r] = "idle"
    /\ \E a \in Arrivals :
        LET reqLog == Logger("log", RequestID(a.rid), a.path, FALSE)
        IN  /\ req' = [req EXCEPT ![r] = a]
            /\ ctxLog' = [ctxLog EXCEPT ![r] = reqLog]
            /\ ww' = [ww EXCEPT ![r] = Writer("wrap")]
            /\ trace' = [trace EXCEPT ![r] = <<"attach", "next">>]
            /\ pc' = [pc EXCEPT ![r] = "next"]
    /\ UNCHANGED <<mw, logs>>
    /\ UNCHANGED <<envVars, renderVars, serverVars, grpcVars, pgVars, ctxVars, routerVars>>

\* RequestLoggerWithOpts up to its call of the next handler: a skipped path
\* goes to next with the request and the writer as they came.
RequestLoggerWithOptsEnter(r) ==
    /\ mw.kind = "RequestLoggerWithOpts"
    /\ pc[r] = "idle"
    /\ \E a \in Arrivals :
        LET reqLog == Logger("log", RequestID(a.rid), a.path, TRUE)
        IN  /\ req' = [req EXCEPT ![r] = a]
            /\ IF Skipped(a.path)
               THEN /\ ctxLog' = [ctxLog EXCEPT ![r] = a.prior]
                    /\ ww' = [ww EXCEPT ![r] = Writer("orig")]
                    /\ trace' = [trace EXCEPT ![r] = <<"next">>]
                    /\ pc' = [pc EXCEPT ![r] = "next"]
               ELSE /\ ctxLog' = [ctxLog EXCEPT ![r] = reqLog]
                    /\ ww' = [ww EXCEPT ![r] = Writer("wrap")]
                    /\ trace' = [trace EXCEPT ![r] = <<"attach", "next">>]
                    /\ pc' = [pc EXCEPT ![r] = "next"]
    /\ UNCHANGED <<mw, logs>>
    /\ UNCHANGED <<envVars, renderVars, serverVars, grpcVars, pgVars, ctxVars, routerVars>>

\* The next handler writes a status.
HandlerWriteHeader(r) ==
    /\ pc[r] = "next"
    /\ \E code \in Statuses : ww' = [ww EXCEPT ![r] = WriteHeader(@, code)]
    /\ UNCHANGED <<mw, pc, req, ctxLog, trace, logs>>
    /\ UNCHANGED <<envVars, renderVars, serverVars, grpcVars, pgVars, ctxVars, routerVars>>

\* The next handler writes a part of the body.
HandlerWrite(r) ==
    /\ pc[r] = "next"
    /\ ww[r].writes < MaxWrites
    /\ ww' = [ww EXCEPT ![r] = Write(@, ChunkLen)]
    /\ UNCHANGED <<mw, pc, req, ctxLog, trace, logs>>
    /\ UNCHANGED <<envVars, renderVars, serverVars, grpcVars, pgVars, ctxVars, routerVars>>

\* The next handler returns.
HandlerReturn(r) ==
    /\ pc[r] = "next"
    /\ pc' = [pc EXCEPT ![r] = "returned"]
    /\ UNCHANGED <<mw, req, ctxLog, ww, trace, logs>>
    /\ UNCHANGED <<envVars, renderVars, serverVars, grpcVars, pgVars, ctxVars, routerVars>>

\* The next handler panics: the panic unwinds through the middleware, which
\* has no deferred call, to the recoverer outside it, and the request is over.
HandlerPanic(r) ==
    /\ pc[r] = "next"
    /\ pc' = [pc EXCEPT ![r] = "done"]
    /\ trace' = [trace EXCEPT ![r] = Append(@, "panic")]
    /\ UNCHANGED <<mw, req, ctxLog, ww, logs>>
    /\ UNCHANGED <<envVars, renderVars, serverVars, grpcVars, pgVars, ctxVars, routerVars>>

\* The completion line: status and bytes of the wrapped writer, at the severity
\* of the status, from the per-request logger.
CompletionLine(r, level) ==
    [req |-> r, bytes |-> ww[r].bytes, status |-> ww[r].code, level |-> level,
     msg |-> "request completed", logger |-> ctxLog[r]]

\* RequestLogger after the next handler returned.
RequestLoggerComplete(r) ==
    /\ mw.kind = "RequestLogger"
    /\ pc[r] = "returned"
    /\ logs' = Append(logs, CompletionLine(r, EventLevel(ww[r].code)))
    /\ trace' = [trace EXCEPT ![r] = Append(@, "log")]
    /\ pc' = [pc EXCEPT ![r] = "done"]
    /\ UNCHANGED <<mw, req, ctxLog, ww>>
    /\ UNCHANGED <<envVars, renderVars, serverVars, grpcVars, pgVars, ctxVars, routerVars>>

\* RequestLoggerWithOpts after the next handler returned: nothing more on a
\* skipped path.
RequestLoggerWithOptsComplete(r) ==
    /\ mw.kind = "RequestLoggerWithOpts"
    /\ pc[r] = "returned"
    /\ IF ww[r].kind = "orig"
       THEN UNCHANGED <<logs, trace>>
       ELSE /\ logs' = Append(logs, CompletionLine(r, EventLevelOpts(ww[r].code)))
            /\ trace' = [trace EXCEPT ![r] = Append(@, "log")]
    /\ pc' = [pc EXCEPT ![r] = "done"]
    /\ UNCHANGED <<mw, req, ctxLog, ww>>
    /\ UNCHANGED <<envVars, renderVars, serverVars, grpcVars, pgVars, ctxVars, routerVars>>

-----------------------------------------------------------------------------
(* The JSON response helpers of package httpx.                             *)

\* A field of a JSON object: absent, or present with its encoded value.
Absent == [val |-> "", present |-> FALSE]
Field(v) == [val |-> v, present |-> TRUE]

\* A JSON document written to a response: the members it has.  raw is a value
\* that is not one of the two envelopes.
Doc(r, d, m, id, c, msg) ==
    [request_id |-> id, raw |-> r, data |-> d, meta |-> m,
     error_code |-> c, error_message |-> msg]

\* The values a caller passes as payload or meta: the nil interface, a map, an
\* empty slice, a nil pointer, and a channel, which encoding/json rejects.
Payloads == {"nil", "obj", "empty", "nilptr", "chan"}

\* json.Marshal of a payload
MarshalValue(p) ==
    CASE p = "obj"    -> Ok("{\"id\":\"1\"}")
      [] p = "empty"  -> Ok("[]")
      [] p = "nilptr" -> Ok("null")
      [] p = "nil"    -> Ok("null")
      [] p = "chan"   -> [ok |-> FALSE, err |-> "UnsupportedTypeError"]

\* A member tagged omitempty whose type is interface{} is left out when nil.
IfaceField(p) == IF p = "nil" THEN Absent ELSE Field(MarshalValue(p).val)

\* A string member tagged omitempty is left out when empty.
OmitEmpty(str) == IF str = "" THEN Absent ELSE Field(str)

\* The values WriteJSON is given: the two envelopes, or a payload as it is.
Response(d, m, id) ==
    [rid |-> id, code |-> "", data |-> d, meta |-> m, type |-> "Response", message |-> ""]
ErrorResponse(c, msg, id) ==
    [rid |-> id, code |-> c, data |-> "nil", meta |-> "nil", type |-> "ErrorResponse",
     message |-> msg]
Raw(p) == [rid |-> "", code |-> "", data |-> p, meta |-> "nil", type |-> "raw", message |-> ""]

\* json.NewEncoder(w).Encode(v) up to its write: the document, or an error with
\* nothing written.
Encode(v) ==
    CASE v.type = "Response" ->
            IF (v.data # "nil" /\ ~MarshalValue(v.data).ok)
                   \/ (v.meta # "nil" /\ ~MarshalValue(v.meta).ok)
            THEN [ok |-> FALSE, err |-> "UnsupportedTypeError"]
            ELSE Ok(Doc(Absent, IfaceField(v.data), IfaceField(v.meta), OmitEmpty(v.rid),
                        Absent, Absent))
      [] v.type = "ErrorResponse" ->
            Ok(Doc(Absent, Absent, Absent, OmitEmpty(v.rid), Field(v.code), Field(v.message)))
      [] v.type = "raw" ->
            IF ~MarshalValue(v.data).ok THEN [ok |-> FALSE, err |-> "UnsupportedTypeError"]
            ELSE Ok(Doc(Field(MarshalValue(v.data).val), Absent, Absent, Absent, Absent, Absent))

\* The static body of the encode-failure fallback.
FallbackDoc ==
    Doc(Absent, Absent, Absent, Absent, Field("internal_error"),
        Field("failed to encode response"))

\* An http.ResponseWriter: the Content-Type header as set, and what has gone to
\* the client: the status line with the headers of that moment, and the body.
FreshWriter ==
    [wroteHeader |-> FALSE, status |-> 0, contentType |-> "", sentType |-> "", body |-> <<>>]

\* w.Header().Set("Content-Type", ct)
SetContentType(w, ct) == [w EXCEPT !.contentType = ct]

\* w.WriteHeader(code): the first call sends the status and the headers; a later
\* call is ignored.
SendHeader(w, code) ==
    IF w.wroteHeader THEN w
    ELSE [w EXCEPT !.wroteHeader = TRUE, !.status = code, !.sentType = w.contentType]

\* w.Write(doc)
SendBody(w, doc) ==
    LET h == SendHeader(w, 200)
    IN  [h EXCEPT !.body = Append(@, doc)]

\* http.Error(w, error, code)
HttpError(w, doc, code) ==
    SendBody(SendHeader(SetContentType(w, "text/plain; charset=utf-8"), code), doc)

\* WriteJSON(w, r, status, v); v is the nil interface when isNil.
WriteJSON(w, status, v, isNil) ==
    LET w1 == SendHeader(SetContentType(w, "application/json"), status)
    IN  IF isNil THEN w1
        ELSE IF Encode(v).ok THEN SendBody(w1, Encode(v).val)
        ELSE HttpError(w1, FallbackDoc, 500)

\* WriteData that does not pass the request ID on.
WriteDataNoID(w, rid, status, data) == WriteJSON(w, status, Response(data, "nil", ""), FALSE)

\* WriteData(w, r, status, data); rid is middleware.GetReqID(r.Context()).
WriteData(w, rid, status, data) == WriteJSON(w, status, Response(data, "nil", rid), FALSE)

WriteDataWithMeta(w, rid, status, data, meta) ==
    WriteJSON(w, status, Response(data, meta, rid), FALSE)

\* WriteError with code and message in each other's place.
WriteErrorSwapped(w, rid, status, code, message) ==
    WriteJSON(w, status, ErrorResponse(message, code, rid), FALSE)

WriteError(w, rid, status, code, message) ==
    WriteJSON(w, status, ErrorResponse(code, message, rid), FALSE)

WriteBadRequest(w, rid, message) == WriteError(w, rid, 400, "bad_request", message)
WriteUnauthorized(w, rid, message) == WriteError(w, rid, 401, "unauthorized", message)
WriteForbidden(w, rid, message) == WriteError(w, rid, 403, "forbidden", message)
WriteNotFound(w, rid, message) == WriteError(w, rid, 404, "not_found", message)
WriteConflict(w, rid, message) == WriteError(w, rid, 409, "conflict", message)
WriteUnprocessable(w, rid, message) ==
    WriteError(w, rid, 422, "unprocessable_entity", message)
WriteInternalError(w, rid, message) == WriteError(w, rid, 500, "internal_error", message)
WriteServiceUnavailable(w, rid, message) ==
    WriteError(w, rid, 503, "service_unavailable", message)

NoContent(w) == SendHeader(w, 204)

\* What callers pass.
RequestIDs == {"", "id-1"}
OkStatuses == {200, 201}
ErrStatuses == {400, 418, 500}
Codes == {"bad_request", "teapot"}
Messages == {"invalid email", ""}

NoRender == [fn |-> "none", rid |-> "", code |-> "", status |-> 0, data |-> "nil",
             meta |-> "nil", message |-> ""]

Rendered(fn, rid, status, data, meta, code, message, w) ==
    /\ call' = [fn |-> fn, rid |-> rid, code |-> code, status |-> status, data |-> data,
                meta |-> meta, message |-> message]
    /\ resp' = w
    /\ UNCHANGED <<envVars, httpVars, serverVars, grpcVars, pgVars, ctxVars, routerVars>>

CallWriteJSON ==
    \E st \in OkStatuses, p \in Payloads :
        Rendered("WriteJSON", "", st, p, "nil", "", "",
                 WriteJSON(FreshWriter, st, Raw(p), p = "nil"))

CallWriteData ==
    \E id \in RequestIDs, st \in OkStatuses, p \in Payloads :
        Rendered("WriteData", id, st, p, "nil", "", "", WriteData(FreshWriter, id, st, p))

CallWriteDataWithMeta ==
    \E id \in RequestIDs, st \in OkStatuses, p \in Payloads, mt \in Payloads :
        Rendered("WriteDataWithMeta", id, st, p, mt, "", "",
                 WriteDataWithMeta(FreshWriter, id, st, p, mt))

CallWriteError ==
    \E id \in RequestIDs, st \in ErrStatuses, c \in Codes, msg \in Messages :
        Rendered("WriteError", id, st, "nil", "nil", c, msg,
                 WriteError(FreshWriter, id, st, c, msg))

Wrapper(fn, id, msg, w) == Rendered(fn, id, 0, "nil", "nil", "", msg, w)

CallWriteBadRequest ==
    \E id \in RequestIDs, msg \in Messages :
        Wrapper("WriteBadRequest", id, msg, WriteBadRequest(FreshWriter, id, msg))

CallWriteUnauthorized ==
    \E id \in RequestIDs, msg \in Messages :
        Wrapper("WriteUnauthorized", id, msg, WriteUnauthorized(FreshWriter, id, msg))

CallWriteForbidden ==
    \E id \in RequestIDs, msg \in Messages :
        Wrapper("WriteForbidden", id, msg, WriteForbidden(FreshWriter, id, msg))

CallWriteNotFound ==
    \E id \in RequestIDs, msg \in Messages :
        Wrapper("WriteNotFound", id, msg, WriteNotFound(FreshWriter, id, msg))

CallWriteConflict ==
    \E id \in RequestIDs, msg \in Messages :
        Wrapper("WriteConflict", id, msg, WriteConflict(FreshWriter, id, msg))

CallWriteUnprocessable ==
    \E id \in RequestIDs, msg \in Messages :
        Wrapper("WriteUnprocessable", id, msg, WriteUnprocessable(FreshWriter, id, msg))

CallWriteInternalError ==
    \E id \in RequestIDs, msg \in Messages :
        Wrapper("WriteInternalError", id, msg, WriteInternalError(FreshWriter, id, msg))

CallWriteServiceUnavailable ==
    \E id \in RequestIDs, msg \in Messages :
        Wrapper("WriteServiceUnavailable", id, msg,
                WriteServiceUnavailable(FreshWriter, id, msg))

CallNoContent ==
    Rendered("NoContent", "", 0, "nil", "nil", "", "", NoContent(FreshWriter))

-----------------------------------------------------------------------------
(* Package grpcx: NewServer, RegisterHealth, RegisterReflection.           *)

\* A zerolog.Logger value, by the fields that tell one logger from another:
\* its writer, its minimum level and the context fields it carries.  The zero
\* value of the level type is the debug level.
ZLogger(w, level, context) == [w |-> w, level |-> level, context |-> context]

\* zerolog.Logger{}: what Options.Logger holds when the caller sets nothing.
ZeroLogger == ZLogger("nil", "debug", <<>>)

\* zerolog.Nop(): a discarding writer at the disabled level.
NopLogger == ZLogger("io.Discard", "disabled", <<>>)

\* The loggers a caller may put in Options.Logger: none, zerolog.Nop(), one
\* made by logger.New, and a zero logger whose level alone was raised.
Loggers ==
    { ZeroLogger,
      NopLogger,
      ZLogger("os.Stdout", "info", <<"time", "service">>),
      ZLogger("nil", "info", <<>>) }

\* A check that looks at the writer alone.
IsZeroWriter(l) == l.w = "nil"

\* reflect.ValueOf(l).IsZero(): every field of the struct is zero.
IsZero(l) == l.w = "nil" /\ l.level = "debug" /\ l.context = <<>>

\* Options, by value.
Options(l, h, r, o) ==
    [Logger |-> l, EnableHealth |-> h, EnableReflection |-> r, EnableOTel |-> o]

\* A grpc.ServerOption: which option function made it, and its argument.
ServerOption(opt, arg) == [opt |-> opt, arg |-> arg]

\* OTELServerOptions(): a single stats handler.
OTELServerOptions == << ServerOption("StatsHandler", "otelgrpc.NewServerHandler") >>

\* The interceptor options a caller can pass as extra options.
ExtraOptions ==
    { ServerOption(o, "caller") :
        o \in {"UnaryInterceptor", "ChainUnaryInterceptor",
               "StreamInterceptor", "ChainStreamInterceptor"} }

\* The longest list of extra options enumerated.
MaxExtra == 2

RECURSIVE OptionsUpTo(_)
OptionsUpTo(n) ==
    IF n = 0 THEN { <<>> }
    ELSE OptionsUpTo(n - 1)
         \cup { Append(s, o) : s \in { t \in OptionsUpTo(n - 1) : Len(t) = n - 1 },
                               o \in ExtraOptions }

\* The options of a grpc.Server before any option is applied.
NoServerOptions ==
    [unaryInt |-> "nil", streamInt |-> "nil", chainUnaryInts |-> <<>>,
     chainStreamInts |-> <<>>, statsHandlers |-> <<>>]

\* One option applied.  The single-interceptor options refuse to be set twice:
\* the second one panics.
ApplyOption(o, so) ==
    CASE o.opt = "ChainUnaryInterceptor" ->
            Ok([so EXCEPT !.chainUnaryInts = Append(@, o.arg)])
      [] o.opt = "ChainStreamInterceptor" ->
            Ok([so EXCEPT !.chainStreamInts = Append(@, o.arg)])
      [] o.opt = "StatsHandler" ->
            Ok([so EXCEPT !.statsHandlers = Append(@, o.arg)])
      [] o.opt = "UnaryInterceptor" ->
            IF so.unaryInt # "nil" THEN [ok |-> FALSE, err |-> "panic"]
            ELSE Ok([so EXCEPT !.unaryInt = o.arg])
      [] o.opt = "StreamInterceptor" ->
            IF so.streamInt # "nil" THEN [ok |-> FALSE, err |-> "panic"]
            ELSE Ok([so EXCEPT !.streamInt = o.arg])

RECURSIVE ApplyOptions(_, _)
ApplyOptions(os, so) ==
    IF os = <<>> THEN Ok(so)
    ELSE LET r == ApplyOption(Head(os), so)
         IN  IF r.ok THEN ApplyOptions(Tail(os), r.val) ELSE r

\* The chain a server runs: the single interceptor, if set, ahead of the
\* chained ones.
Chain(single, chained) == IF single = "nil" THEN chained ELSE <<single>> \o chained

\* No server: the nil *grpc.Server.
NoServer ==
    [statsHandlers |-> <<>>, built |-> FALSE, unaryChain |-> <<>>,
     streamChain |-> <<>>, services |-> {}, health |-> ""]

\* grpc.NewServer(serverOpts...) when no option panics.
GrpcNewServer(so) ==
    [statsHandlers |-> so.statsHandlers, built |-> TRUE,
     unaryChain |-> Chain(so.unaryInt, so.chainUnaryInts),
     streamChain |-> Chain(so.streamInt, so.chainStreamInts),
     services |-> {}, health |-> ""]

\* A registration that leaves the status unset.
RegisterHealthOnly(s) == [s EXCEPT !.services = @ \cup {"grpc.health.v1.Health"}]

\* RegisterHealth(server): the service is registered and the status of the
\* empty service name is SERVING when it returns.
RegisterHealth(s) ==
    [s EXCEPT !.services = @ \cup {"grpc.health.v1.Health"}, !.health = "SERVING"]

RegisterReflection(s) ==
    [s EXCEPT !.services = @ \cup {"grpc.reflection.v1.ServerReflection"}]

\* What NewServer has not returned yet, and what it returns.
NoResult == [s |-> NoServer, err |-> "nil", returned |-> FALSE]
Return(s, err) == [s |-> s, err |-> err, returned |-> TRUE]

\* The logger check.  A zero logger ends the call with an error; otherwise the
\* two logging interceptors are the first server options.
NewServerLogger ==
    /\ step = "start"
    /\ IF IsZero(opts.Logger)
       THEN /\ result' = Return(NoServer, "Options.Logger must be set")
            /\ step' = "done"
            /\ UNCHANGED <<serverOpts, effects>>
       ELSE /\ serverOpts' =
                 << ServerOption("ChainUnaryInterceptor", "UnaryLoggingInterceptor"),
                    ServerOption("ChainStreamInterceptor", "StreamLoggingInterceptor") >>
            /\ effects' = effects \o <<"ChainUnaryInterceptor", "ChainStreamInterceptor">>
            /\ step' = "otel"
            /\ UNCHANGED result
    /\ UNCHANGED <<opts, extra, server>>
    /\ UNCHANGED <<envVars, httpVars, renderVars, grpcVars, pgVars, ctxVars, routerVars>>

NewServerOTel ==
    /\ step = "otel"
    /\ IF opts.EnableOTel
       THEN /\ serverOpts' = serverOpts \o OTELServerOptions
            /\ effects' = Append(effects, "OTELServerOptions")
       ELSE UNCHANGED <<serverOpts, effects>>
    /\ step' = "extra"
    /\ UNCHANGED <<opts, extra, server, result>>
    /\ UNCHANGED <<envVars, httpVars, renderVars, grpcVars, pgVars, ctxVars, routerVars>>

NewServerExtra ==
    /\ step = "extra"
    /\ serverOpts' = serverOpts \o extra
    /\ step' = "build"
    /\ UNCHANGED <<opts, extra, server, effects, result>>
    /\ UNCHANGED <<envVars, httpVars, renderVars, grpcVars, pgVars, ctxVars, routerVars>>

NewServerBuild ==
    /\ step = "build"
    /\ ApplyOptions(serverOpts, NoServerOptions).ok
    /\ server' = GrpcNewServer(ApplyOptions(serverOpts, NoServerOptions).val)
    /\ effects' = Append(effects, "grpc.NewServer")
    /\ step' = "health"
    /\ UNCHANGED <<opts, extra, serverOpts, result>>
    /\ UNCHANGED <<envVars, httpVars, renderVars, grpcVars, pgVars, ctxVars, routerVars>>

\* grpc.NewServer panics on the caller's options; NewServer does not return.
NewServerPanic ==
    /\ step = "build"
    /\ ~ApplyOptions(serverOpts, NoServerOptions).ok
    /\ step' = "panicked"
    /\ UNCHANGED <<opts, extra, serverOpts, server, effects, result>>
    /\ UNCHANGED <<envVars, httpVars, renderVars, grpcVars, pgVars, ctxVars, routerVars>>

NewServerHealth ==
    /\ step = "health"
    /\ IF opts.EnableHealth
       THEN /\ server' = RegisterHealth(server)
            /\ effects' = effects \o <<"RegisterHealthServer", "SetServingStatus">>
       ELSE UNCHANGED <<server, effects>>
    /\ step' = "reflection"
    /\ UNCHANGED <<opts, extra, serverOpts, result>>
    /\ UNCHANGED <<envVars, httpVars, renderVars, grpcVars, pgVars, ctxVars, routerVars>>

NewServerReflection ==
    /\ step = "reflection"
    /\ IF opts.EnableReflection
       THEN /\ server' = RegisterReflection(server)
            /\ effects' = Append(effects, "reflection.Register")
       ELSE UNCHANGED <<server, effects>>
    /\ step' = "return"
    /\ UNCHANGED <<opts, extra, serverOpts, result>>
    /\ UNCHANGED <<envVars, httpVars, renderVars, grpcVars, pgVars, ctxVars, routerVars>>

NewServerReturn ==
    /\ step = "return"
    /\ result' = IF ~server.built
                 THEN Return(NoServer, "got nil")
                 ELSE Return(server, "nil")
    /\ step' = "done"
    /\ UNCHANGED <<opts, extra, serverOpts, server, effects>>
    /\ UNCHANGED <<envVars, httpVars, renderVars, grpcVars, pgVars, ctxVars, routerVars>>

-----------------------------------------------------------------------------
(* Package grpcx: the logging interceptors.                                *)

Calls == {"c1", "c2"}

\* codes.Code, by name.
GrpcCodes ==
    { "OK", "Canceled", "Unknown", "InvalidArgument", "DeadlineExceeded",
      "NotFound", "AlreadyExists", "PermissionDenied", "ResourceExhausted",
      "FailedPrecondition", "Aborted", "OutOfRange", "Unimplemented",
      "Internal", "Unavailable", "DataLoss", "Unauthenticated" }

\* What a handler returns as its error: nil, a status error of a code other
\* than OK, or an error that carries no status.
Errs == {"nil", "errors.New"} \cup (GrpcCodes \ {"OK"})

\* status.Code(err).
StatusCode(err) ==
    IF err = "nil" THEN "OK"
    ELSE IF err \in GrpcCodes THEN err
    ELSE "Unknown"

\* A classification that takes a cancelled call for a failure.
eventForCodeStrict(code) ==
    CASE code = "OK" -> "info"
      [] code = "DeadlineExceeded" -> "warn"
      [] code \in {"InvalidArgument", "NotFound", "AlreadyExists",
                   "PermissionDenied", "Unauthenticated", "FailedPrecondition",
                   "ResourceExhausted", "Aborted", "OutOfRange"} -> "warn"
      [] OTHER -> "error"

\* The level of the event eventForCode opens.
eventForCode(code) ==
    CASE code = "OK" -> "info"
      [] code = "Canceled" \/ code = "DeadlineExceeded" -> "warn"
      [] code = "InvalidArgument" \/ code = "NotFound" \/ code = "AlreadyExists"
         \/ code = "PermissionDenied" \/ code = "Unauthenticated"
         \/ code = "FailedPrecondition" \/ code = "ResourceExhausted"
         \/ code = "Aborted" \/ code = "OutOfRange" -> "warn"
      [] OTHER -> "error"

\* The incoming context of a call: whether it carries metadata, and the
\* values the metadata holds under x-request-id (none when the key is absent).
Incoming(hasMD, vals) == [hasMD |-> hasMD, vals |-> vals]

Contexts ==
    { Incoming(FALSE, <<>>), Incoming(TRUE, <<>>), Incoming(TRUE, <<"id-1">>),
      Incoming(TRUE, <<"id-1", "id-2">>) }

\* A reading that takes the last value instead of the first.
requestIDLast(ctx) ==
    IF ~ctx.hasMD THEN ""
    ELSE IF Len(ctx.vals) = 0 THEN ""
    ELSE ctx.vals[Len(ctx.vals)]

requestIDFromIncomingContext(ctx) ==
    IF ~ctx.hasMD THEN ""
    ELSE IF Len(ctx.vals) = 0 THEN ""
    ELSE ctx.vals[1]

\* A call that has not arrived.
NoRpc == [kind |-> "none", ctx |-> Incoming(FALSE, <<>>)]

\* The interceptor up to and including its call of the handler.
InterceptorEnter(c, kind) ==
    /\ ~crashed
    /\ rpcPc[c] = "idle"
    /\ \E ctx \in Contexts : rpc' = [rpc EXCEPT ![c] = [kind |-> kind, ctx |-> ctx]]
    /\ handlerCalls' = [handlerCalls EXCEPT ![c] = @ + 1]
    /\ rpcTrace' = [rpcTrace EXCEPT ![c] = Append(@, "handler")]
    /\ rpcPc' = [rpcPc EXCEPT ![c] = "handler"]
    /\ UNCHANGED <<rpcErr, grpcLogs, crashed>>
    /\ UNCHANGED <<envVars, httpVars, renderVars, serverVars, pgVars, ctxVars, routerVars>>

UnaryLoggingInterceptorEnter(c) == InterceptorEnter(c, "unary")

StreamLoggingInterceptorEnter(c) == InterceptorEnter(c, "stream")

\* The handler returns, with nil or with an error.
RpcHandlerReturn(c) ==
    /\ ~crashed
    /\ rpcPc[c] = "handler"
    /\ \E err \in Errs : rpcErr' = [rpcErr EXCEPT ![c] = err]
    /\ rpcTrace' = [rpcTrace EXCEPT ![c] = Append(@, "returned")]
    /\ rpcPc' = [rpcPc EXCEPT ![c] = "returned"]
    /\ UNCHANGED <<rpc, handlerCalls, grpcLogs, crashed>>
    /\ UNCHANGED <<envVars, httpVars, renderVars, serverVars, pgVars, ctxVars, routerVars>>

\* The handler panics.  Nothing in the interceptor recovers, and a panic that
\* leaves a gRPC handler ends the process.
RpcHandlerPanic(c) ==
    /\ ~crashed
    /\ rpcPc[c] = "handler"
    /\ crashed' = TRUE
    /\ UNCHANGED <<rpc, rpcPc, rpcErr, handlerCalls, rpcTrace, grpcLogs>>
    /\ UNCHANGED <<envVars, httpVars, renderVars, serverVars, pgVars, ctxVars, routerVars>>

\* The line an interceptor writes once the handler has returned.
GrpcLine(c) ==
    [call |-> c,
     request_id |-> requestIDFromIncomingContext(rpc[c].ctx),
     kind |-> rpc[c].kind,
     level |-> eventForCode(StatusCode(rpcErr[c])),
     msg |-> "grpc request",
     grpc_code |-> StatusCode(rpcErr[c])]

\* The interceptor from the handler's return to its own.
InterceptorComplete(c, kind) ==
    /\ ~crashed
    /\ rpcPc[c] = "returned"
    /\ rpc[c].kind = kind
    /\ grpcLogs' = Append(grpcLogs, GrpcLine(c))
    /\ rpcTrace' = [rpcTrace EXCEPT ![c] = Append(@, "log")]
    /\ rpcPc' = [rpcPc EXCEPT ![c] = "done"]
    /\ UNCHANGED <<rpc, rpcErr, handlerCalls, crashed>>
    /\ UNCHANGED <<envVars, httpVars, renderVars, serverVars, pgVars, ctxVars, routerVars>>

UnaryLoggingInterceptorComplete(c) == InterceptorComplete(c, "unary")

StreamLoggingInterceptorComplete(c) == InterceptorComplete(c, "stream")

-----------------------------------------------------------------------------
(* Package postgres: Open.                                                 *)

\* Config, by value.  Durations are in seconds.
Config(url, maxConns, minConns, lifetime, idle, period) ==
    [URL |-> url, MaxConns |-> maxConns, MinConns |-> minConns,
     MaxConnLifetime |-> lifetime, MaxConnIdleTime |-> idle,
     HealthCheckPeriod |-> period]

DefaultConfig(url) == Config(url, 10, 2, 3600, 1800, 60)

\* Connection strings: one pgxpool.ParseConfig accepts and one it rejects.
URLs == {"postgres://u@h/db", "postgres://%"}

\* pgxpool.ParseConfig: the pool settings of a connection string that names
\* none, or a parse error.
ParseConfig(url) ==
    IF url = "postgres://u@h/db"
    THEN Ok(Config(url, 4, 0, 3600, 1800, 60))
    ELSE [ok |-> FALSE, err |-> "cannot parse"]

\* The pool settings after Open has applied the positive settings of cfg.
ApplySettings(pc0, cfg) ==
    Config(pc0.URL,
           IF cfg.MaxConns > 0 THEN cfg.MaxConns ELSE pc0.MaxConns,
           IF cfg.MinConns > 0 THEN cfg.MinConns ELSE pc0.MinConns,
           IF cfg.MaxConnLifetime > 0 THEN cfg.MaxConnLifetime ELSE pc0.MaxConnLifetime,
           IF cfg.MaxConnIdleTime > 0 THEN cfg.MaxConnIdleTime ELSE pc0.MaxConnIdleTime,
           IF cfg.HealthCheckPeriod > 0 THEN cfg.HealthCheckPeriod
           ELSE pc0.HealthCheckPeriod)

\* The configurations Open is called with.
Configs ==
    { DefaultConfig(u) : u \in URLs }
    \cup { Config(u, mx, mn, l, i, p) :
             u \in URLs, mx \in {0, 20}, mn \in {-1, 5}, l \in {0, 7200},
             i \in {0, 900}, p \in {0, 30} }

\* A pool: whether NewWithConfig made it, and how often Close was called.
NoPool == [created |-> FALSE, closed |-> 0]

\* A Close that does nothing.
CloseNothing(p) == p

\* pool.Close().
Close(p) == [p EXCEPT !.closed = @ + 1]

\* An error wrapped with context by fmt.Errorf("context: %w", err); nil is <<>>.
Errorf(context, err) == <<context, err>>

\* What Open returns: whether it returned the pool, and the error.
NotOpened == [pool |-> FALSE, err |-> <<>>, returned |-> FALSE]
Opened(p, err) == [pool |-> p, err |-> err, returned |-> TRUE]

NoPgCalls == [ParseConfig |-> 0, NewWithConfig |-> 0, Ping |-> 0]

\* Open parses the connection string and applies the settings.
OpenParse ==
    /\ pgStep = "start"
    /\ pgCalls' = [pgCalls EXCEPT !.ParseConfig = @ + 1]
    /\ IF ~ParseConfig(pgCfg.URL).ok
       THEN /\ pgResult' = Opened(FALSE, Errorf("parsing postgres config",
                                                ParseConfig(pgCfg.URL).err))
            /\ pgStep' = "done"
            /\ UNCHANGED poolCfg
       ELSE /\ poolCfg' = ApplySettings(ParseConfig(pgCfg.URL).val, pgCfg)
            /\ pgStep' = "create"
            /\ UNCHANGED pgResult
    /\ UNCHANGED <<pgCfg, pool>>
    /\ UNCHANGED <<envVars, httpVars, renderVars, serverVars, grpcVars, ctxVars, routerVars>>

\* Open creates the pool; pgxpool.NewWithConfig succeeds or fails.
OpenCreate ==
    /\ pgStep = "create"
    /\ pgCalls' = [pgCalls EXCEPT !.NewWithConfig = @ + 1]
    /\ \E ok \in BOOLEAN :
          IF ~ok
          THEN /\ pgResult' = Opened(FALSE, Errorf("creating postgres pool",
                                                   "cannot create"))
               /\ pgStep' = "done"
               /\ UNCHANGED pool
          ELSE /\ pool' = [pool EXCEPT !.created = TRUE]
               /\ pgStep' = "ping"
               /\ UNCHANGED pgResult
    /\ UNCHANGED <<pgCfg, poolCfg>>
    /\ UNCHANGED <<envVars, httpVars, renderVars, serverVars, grpcVars, ctxVars, routerVars>>

\* Open pings the database; a pool whose ping fails is closed and not returned.
OpenPing ==
    /\ pgStep = "ping"
    /\ pgCalls' = [pgCalls EXCEPT !.Ping = @ + 1]
    /\ \E ok \in BOOLEAN :
          IF ~ok
          THEN /\ pool' = Close(pool)
               /\ pgResult' = Opened(FALSE, Errorf("pinging postgres", "cannot ping"))
          ELSE /\ pgResult' = Opened(TRUE, <<>>)
               /\ UNCHANGED pool
    /\ pgStep' = "done"
    /\ UNCHANGED <<pgCfg, poolCfg>>
    /\ UNCHANGED <<envVars, httpVars, renderVars, serverVars, grpcVars, ctxVars, routerVars>>

-----------------------------------------------------------------------------
(* Package logger: loggers carried by contexts.                            *)

\* How many contexts are made in one behaviour, the base context included.
MaxCtx == 3

\* The requests that derive contexts, each in its own goroutine.
CtxReqs == {"q1", "q2"}

\* context.Background(): the root of every chain, carrying nothing.
Background == 0

\* A context made by context.WithValue: its parent, the goroutine that made
\* it, the key it adds and the logger stored under it.  A context is never
\* written after it is made; a derivation adds a node.
Node(parent, owner, key, val) ==
    [val |-> val, key |-> key, parent |-> parent, owner |-> owner]

\* The logger a service makes with logger.New.
ServiceLogger == ZLogger("os.Stdout", "info", <<"time", "service">>)

\* A lookup that sees only what the context itself adds.
ValueDirect(ns, i, key) ==
    IF i # Background /\ ns[i].key = key THEN Ok(ns[i].val)
    ELSE [ok |-> FALSE, err |-> "nil"]

\* ctx.Value(key): the value of the nearest context of the chain that adds
\* the key.
RECURSIVE Value(_, _, _)
Value(ns, i, key) ==
    IF i = Background THEN [ok |-> FALSE, err |-> "nil"]
    ELSE IF ns[i].key = key THEN Ok(ns[i].val)
    ELSE Value(ns, ns[i].parent, key)

\* logger.From(ctx).
From(ns, i) ==
    IF Value(ns, i, "ctxKey").ok THEN Value(ns, i, "ctxKey").val ELSE NopLogger

\* An attachment that also writes the logger into the parent.
WithInPlace(ns, p, owner, log) ==
    Append(IF p = Background THEN ns ELSE [ns EXCEPT ![p].key = "ctxKey", ![p].val = log],
           Node(p, owner, "ctxKey", log))

\* logger.With(ctx, log): the contexts after the call; the new one is the last.
With(ns, p, owner, log) == Append(ns, Node(p, owner, "ctxKey", log))

\* log.With().Str(k, v)...Logger(): a copy of the logger with more fields.
AddFields(log, fields) == [log EXCEPT !.context = @ \o fields]

\* logger.WithFields(ctx, fields), for one order of iteration over the map.
WithFields(ns, p, owner, fields) == With(ns, p, owner, AddFields(From(ns, p), fields))

\* logger.WithRequestID(ctx, requestID).
WithRequestID(ns, p, owner, requestID) ==
    With(ns, p, owner, AddFields(From(ns, p), <<"request_id=" \o requestID>>))

\* The fields RequestLogger adds to its own logger for a request.
RequestFields == <<"request_id", "method", "path", "remote_addr">>

\* The contexts a request holds: the shared ones and those it derived.
Held(r) ==
    {Background} \cup { i \in 1..Len(nodes) : nodes[i].owner \in {"shared", r} }

\* The orders in which a map of two fields is iterated.
FieldOrders == { <<"user", "tenant">>, <<"tenant", "user">> }

NoDerivation == [fn |-> "none", parent |-> 0, child |-> 0]

Derive(fn, p, ns) ==
    /\ Len(nodes) < MaxCtx
    /\ nodes' = ns
    /\ derived' = [fn |-> fn, parent |-> p, child |-> Len(ns)]
    /\ UNCHANGED <<envVars, httpVars, renderVars, serverVars, grpcVars, pgVars, routerVars>>

CallWith(r) ==
    \E p \in Held(r) :
        Derive("With", p, With(nodes, p, r, ZLogger("os.Stderr", "debug", <<>>)))

CallWithFields(r) ==
    \E p \in Held(r), fields \in FieldOrders :
        Derive("WithFields", p, WithFields(nodes, p, r, fields))

CallWithRequestID(r) ==
    \E p \in Held(r) :
        Derive("WithRequestID", p, WithRequestID(nodes, p, r, "id-1"))

\* RequestLogger attaches a logger derived from its own to the request's
\* context.
RequestLoggerAttach(r) ==
    \E p \in Held(r) :
        Derive("RequestLogger", p,
               With(nodes, p, r, AddFields(ServiceLogger, RequestFields)))

\* Some other package stores a value of its own under its own key.
OtherWithValue(r) ==
    \E p \in Held(r) :
        Derive("WithValue", p, Append(nodes, Node(p, r, "otherKey", ZeroLogger)))

-----------------------------------------------------------------------------
(* Package httpx: NewRouter and its options.                               *)

\* The longest list of options enumerated.
MaxOpts == 2

\* A RouterOption, by what it does to the mux it is given: the middlewares it
\* passes to Use, in order, and whether it registers a route.
RouterOption(fn, uses, routes) == [fn |-> fn, uses |-> uses, routes |-> routes]

WithTimeout(timeout) ==
    RouterOption("WithTimeout", <<"Timeout(" \o timeout \o ")">>, FALSE)

WithCORS(allowedOrigins) ==
    RouterOption("WithCORS", <<"cors(" \o allowedOrigins \o ")">>, FALSE)

WithCORSDefaults == WithCORS("*")

WithMiddleware(middlewares) == RouterOption("WithMiddleware", middlewares, FALSE)

WithHeartbeat(path) ==
    RouterOption("WithHeartbeat", <<"Heartbeat(" \o path \o ")">>, FALSE)

WithStripSlashes == RouterOption("WithStripSlashes", <<"StripSlashes">>, FALSE)

WithCompression(level) ==
    RouterOption("WithCompression", <<"Compress(" \o level \o ")">>, FALSE)

\* An option of the caller's own that registers a route on the mux.
WithRoute == RouterOption("func(*chi.Mux)", <<>>, TRUE)

\* The options NewRouter is called with.
RouterOptions ==
    { WithTimeout("30s"), WithTimeout("5s"), WithCORSDefaults,
      WithMiddleware(<<>>), WithMiddleware(<<"m1", "m2">>), WithHeartbeat("/ping"),
      WithStripSlashes, WithCompression("5"), WithRoute }

RECURSIVE RouterOptionsUpTo(_)
RouterOptionsUpTo(n) ==
    IF n = 0 THEN { <<>> }
    ELSE RouterOptionsUpTo(n - 1)
         \cup { Append(s, o) : s \in { t \in RouterOptionsUpTo(n - 1) : Len(t) = n - 1 },
                               o \in RouterOptions }

\* chi.NewRouter(): no middleware, no route.
NewMux == [middlewares |-> <<>>, routed |-> FALSE]

\* A Use that puts the middleware in front of the stack.
UseFirst(mx, m) ==
    IF mx.routed THEN [ok |-> FALSE, err |-> "panic"]
    ELSE Ok([mx EXCEPT !.middlewares = <<m>> \o @])

\* mx.Use(m): the middleware goes to the end of the stack; chi panics when the
\* mux already has a route.
Use(mx, m) ==
    IF mx.routed THEN [ok |-> FALSE, err |-> "panic"]
    ELSE Ok([mx EXCEPT !.middlewares = Append(@, m)])

RECURSIVE UseAll(_, _)
UseAll(mx, ms) ==
    IF ms = <<>> THEN Ok(mx)
    ELSE IF Use(mx, Head(ms)).ok THEN UseAll(Use(mx, Head(ms)).val, Tail(ms))
    ELSE Use(mx, Head(ms))

\* opt(r): what an option does to the mux.
ApplyRouterOption(opt, mx) ==
    IF opt.routes THEN Ok([mx EXCEPT !.routed = TRUE]) ELSE UseAll(mx, opt.uses)

\* NewRouter makes the mux and installs the default middlewares.
NewRouterDefaults ==
    /\ rtStep = "start"
    /\ mux' = UseAll(NewMux, <<"RequestID", "RealIP", "Recoverer">>).val
    /\ rtStep' = "options"
    /\ UNCHANGED <<routerOpts, applied, rtResult>>
    /\ UNCHANGED <<envVars, httpVars, renderVars, serverVars, grpcVars, pgVars, ctxVars>>

\* NewRouter applies the next option.
NewRouterOption ==
    /\ rtStep = "options"
    /\ Len(applied) < Len(routerOpts)
    /\ ApplyRouterOption(routerOpts[Len(applied) + 1], mux).ok
    /\ mux' = ApplyRouterOption(routerOpts[Len(applied) + 1], mux).val
    /\ applied' = Append(applied, Len(applied) + 1)
    /\ UNCHANGED <<routerOpts, rtStep, rtResult>>
    /\ UNCHANGED <<envVars, httpVars, renderVars, serverVars, grpcVars, pgVars, ctxVars>>

\* The next option panics: it adds a middleware to a mux that has a route.
NewRouterPanic ==
    /\ rtStep = "options"
    /\ Len(applied) < Len(routerOpts)
    /\ ~ApplyRouterOption(routerOpts[Len(applied) + 1], mux).ok
    /\ rtStep' = "panicked"
    /\ UNCHANGED <<routerOpts, mux, applied, rtResult>>
    /\ UNCHANGED <<envVars, httpVars, renderVars, serverVars, grpcVars, pgVars, ctxVars>>

NewRouterReturn ==
    /\ rtStep = "options"
    /\ Len(applied) = Len(routerOpts)
    /\ rtResult' = TRUE
    /\ rtStep' = "done"
    /\ UNCHANGED <<routerOpts, mux, applied>>
    /\ UNCHANGED <<envVars, httpVars, renderVars, serverVars, grpcVars, pgVars, ctxVars>>

-----------------------------------------------------------------------------
(* Initial states and specifications.                                      *)

\* No request has arrived.
NoRequests ==
    /\ pc = [r \in Reqs |-> "idle"]
    /\ req = [r \in Reqs |-> NoReq]
    /\ ctxLog = [r \in Reqs |-> Nop]
    /\ ww = [r \in Reqs |-> Writer("orig")]
    /\ trace = [r \in Reqs |-> <<>>]
    /\ logs = <<>>

\* The middleware is not part of the behaviour.
HttpOff ==
    /\ mw = [kind |-> "none", skipPaths |-> {}]
    /\ NoRequests

\* The environment is not part of the behaviour.
EnvOff ==
    /\ intSize = 64
    /\ env = [k \in Keys |-> Unset]
    /\ ret = NoCall

\* The response helpers are not part of the behaviour.
RenderOff ==
    /\ call = NoRender
    /\ resp = FreshWriter

\* NewServer is not part of the behaviour.
ServerOff ==
    /\ opts = Options(ZeroLogger, FALSE, FALSE, FALSE)
    /\ extra = <<>>
    /\ step = "start"
    /\ serverOpts = <<>>
    /\ server = NoServer
    /\ effects = <<>>
    /\ result = NoResult

\* No call has arrived.
NoRpcs ==
    /\ rpc = [c \in Calls |-> NoRpc]
    /\ rpcPc = [c \in Calls |-> "idle"]
    /\ rpcErr = [c \in Calls |-> "nil"]
    /\ handlerCalls = [c \in Calls |-> 0]
    /\ rpcTrace = [c \in Calls |-> <<>>]
    /\ grpcLogs = <<>>
    /\ crashed = FALSE

\* postgres.Open is not part of the behaviour.
PgOff ==
    /\ pgCfg = DefaultConfig("postgres://u@h/db")
    /\ pgStep = "start"
    /\ poolCfg = DefaultConfig("postgres://u@h/db")
    /\ pool = NoPool
    /\ pgCalls = NoPgCalls
    /\ pgResult = NotOpened

\* No context has been derived.
CtxOff ==
    /\ nodes = <<>>
    /\ derived = NoDerivation

\* NewRouter is not part of the behaviour.
RouterOff ==
    /\ routerOpts = <<>>
    /\ mux = NewMux
    /\ applied = <<>>
    /\ rtStep = "start"
    /\ rtResult = FALSE

\* The environment a process starts with: key A holds any value or none, key B
\* one of a few, so that a getter reading the wrong key shows.
InitEnv ==
    /\ intSize \in {32, 64}
    /\ env \in {e \in [Keys -> {Set(v) : v \in EnvValues} \cup {Unset}] :
                    e["B"] \in {Unset, Set(<<"1">>), Set(<<"t","r","u","e">>)}}
    /\ ret = NoCall
    /\ HttpOff
    /\ RenderOff
    /\ ServerOff
    /\ NoRpcs
    /\ PgOff
    /\ CtxOff
    /\ RouterOff

NextEnv ==
    \/ CallGetEnv
    \/ CallGetEnvInt
    \/ CallGetEnvInt32
    \/ CallGetEnvDuration
    \/ CallGetEnvBool

SpecEnv == InitEnv /\ [][NextEnv]_vars

InitLogger ==
    /\ mw \in {[kind |-> "RequestLogger", skipPaths |-> {}]}
              \cup {[kind |-> "RequestLoggerWithOpts", skipPaths |-> sp] :
                       sp \in {{}, {"/health"}}}
    /\ NoRequests
    /\ EnvOff
    /\ RenderOff
    /\ ServerOff
    /\ NoRpcs
    /\ PgOff
    /\ CtxOff
    /\ RouterOff

NextLogger ==
    \E r \in Reqs :
        \/ RequestLoggerEnter(r)
        \/ RequestLoggerWithOptsEnter(r)
        \/ HandlerWriteHeader(r)
        \/ HandlerWrite(r)
        \/ HandlerReturn(r)
        \/ HandlerPanic(r)
        \/ RequestLoggerComplete(r)
        \/ RequestLoggerWithOptsComplete(r)

SpecLogger == InitLogger /\ [][NextLogger]_vars

InitRender ==
    /\ call = NoRender
    /\ resp = FreshWriter
    /\ EnvOff
    /\ HttpOff
    /\ ServerOff
    /\ NoRpcs
    /\ PgOff
    /\ CtxOff
    /\ RouterOff

NextRender ==
    \/ CallWriteJSON
    \/ CallWriteData
    \/ CallWriteDataWithMeta
    \/ CallWriteError
    \/ CallWriteBadRequest
    \/ CallWriteUnauthorized
    \/ CallWriteForbidden
    \/ CallWriteNotFound
    \/ CallWriteConflict
    \/ CallWriteUnprocessable
    \/ CallWriteInternalError
    \/ CallWriteServiceUnavailable
    \/ CallNoContent

SpecRender == InitRender /\ [][NextRender]_vars

\* A call of NewServer, with any options and any extra options.
InitServer ==
    /\ opts \in { Options(l, h, r, o) : l \in Loggers, h \in BOOLEAN, r \in BOOLEAN,
                                        o \in BOOLEAN }
    /\ extra \in OptionsUpTo(MaxExtra)
    /\ step = "start"
    /\ serverOpts = <<>>
    /\ server = NoServer
    /\ effects = <<>>
    /\ result = NoResult
    /\ EnvOff
    /\ HttpOff
    /\ RenderOff
    /\ NoRpcs
    /\ PgOff
    /\ CtxOff
    /\ RouterOff

NextServer ==
    \/ NewServerLogger
    \/ NewServerOTel
    \/ NewServerExtra
    \/ NewServerBuild
    \/ NewServerPanic
    \/ NewServerHealth
    \/ NewServerReflection
    \/ NewServerReturn

SpecServer == InitServer /\ [][NextServer]_vars

InitGrpc ==
    /\ NoRpcs
    /\ EnvOff
    /\ HttpOff
    /\ RenderOff
    /\ ServerOff
    /\ PgOff
    /\ CtxOff
    /\ RouterOff

NextGrpc ==
    \E c \in Calls :
        \/ UnaryLoggingInterceptorEnter(c)
        \/ StreamLoggingInterceptorEnter(c)
        \/ RpcHandlerReturn(c)
        \/ RpcHandlerPanic(c)
        \/ UnaryLoggingInterceptorComplete(c)
        \/ StreamLoggingInterceptorComplete(c)

SpecGrpc == InitGrpc /\ [][NextGrpc]_vars

\* A call of Open with any configuration.
InitPg ==
    /\ pgCfg \in Configs
    /\ pgStep = "start"
    /\ poolCfg = DefaultConfig("postgres://u@h/db")
    /\ pool = NoPool
    /\ pgCalls = NoPgCalls
    /\ pgResult = NotOpened
    /\ EnvOff
    /\ HttpOff
    /\ RenderOff
    /\ ServerOff
    /\ NoRpcs
    /\ CtxOff
    /\ RouterOff

NextPg ==
    \/ OpenParse
    \/ OpenCreate
    \/ OpenPing

SpecPg == InitPg /\ [][NextPg]_vars

\* The server's base context is the background context, or one that carries
\* the service's logger; no request has derived a context yet.
InitCtx ==
    /\ nodes \in { <<>>, With(<<>>, Background, "shared", ServiceLogger) }
    /\ derived = NoDerivation
    /\ EnvOff
    /\ HttpOff
    /\ RenderOff
    /\ ServerOff
    /\ NoRpcs
    /\ PgOff
    /\ RouterOff

NextCtx ==
    \E r \in CtxReqs :
        \/ CallWith(r)
        \/ CallWithFields(r)
        \/ CallWithRequestID(r)
        \/ RequestLoggerAttach(r)
        \/ OtherWithValue(r)

SpecCtx == InitCtx /\ [][NextCtx]_vars

\* A call of NewRouter with any options.
InitRouter ==
    /\ routerOpts \in RouterOptionsUpTo(MaxOpts)
    /\ mux = NewMux
    /\ applied = <<>>
    /\ rtStep = "start"
    /\ rtResult = FALSE
    /\ EnvOff
    /\ HttpOff
    /\ RenderOff
    /\ ServerOff
    /\ NoRpcs
    /\ PgOff
    /\ CtxOff

NextRouter ==
    \/ NewRouterDefaults
    \/ NewRouterOption
    \/ NewRouterPanic
    \/ NewRouterReturn

SpecRouter == InitRouter /\ [][NextRouter]_vars

-----------------------------------------------------------------------------
(* Claim C1: the typed getters.                                            *)

\* The parser of each getter's type; any string is a well-formed string.
ParseFor(fn, s) ==
    CASE fn = "GetEnv"         -> Ok(s)
      [] fn = "GetEnvInt"      -> Atoi(s)
      [] fn = "GetEnvInt32"    -> ParseInt(s, 32)
      [] fn = "GetEnvDuration" -> ParseDuration(s)
      [] fn = "GetEnvBool"     -> ParseBool(s)

Called == ret.fn \in Getters

\* What a few values parse to, written out.
C1_Examples ==
    /\ ParseInt(<<"0","0","7">>, 32) = Ok(IntOf(FALSE, <<"7">>))
    /\ ParseInt(<<"-","0">>, 64) = Ok(IntOf(FALSE, <<"0">>))
    /\ ParseInt(<<"-","1">>, 32) = Ok(IntOf(TRUE, <<"1">>))
    /\ ~ParseInt(<<"2","1","4","7","4","8","3","6","4","8">>, 32).ok
    /\ ParseInt(<<"2","1","4","7","4","8","3","6","4","8">>, 64).ok
    /\ ~ParseInt(<<"1","_","0">>, 64).ok
    /\ ~ParseInt(<<"-">>, 64).ok
    /\ ParseDuration(<<"1","h","3","0","m">>) = Ok(DurOf(FALSE, 5400, 0))
    /\ ParseDuration(<<"-","1",".","5","s">>) = Ok(DurOf(TRUE, 1, 500 * 1000 * 1000))
    /\ ParseDuration(<<"0">>) = Ok(DurOf(FALSE, 0, 0))
    /\ ~ParseDuration(<<"1">>).ok
    /\ ~ParseDuration(<<"1","d">>).ok
    /\ ParseBool(<<"T">>) = Ok(TRUE)
    /\ ~ParseBool(<<"y","e","s">>).ok

\* C1 as claimed: a getter returns the parsed value when the variable is present
\* (set) and well-formed for its type, and the default in every other case.
C1_AsClaimed ==
    Called =>
        LET v == env[ret.key]
            r == ParseFor(ret.fn, v.val)
        IN  ret.val = IF v.set /\ r.ok THEN r.val ELSE ret.def

\* C1, amended: a getter returns the parsed value when the variable is set to a
\* non-empty value that is well-formed for its type, and exactly the default when
\* the variable is unset, empty or malformed; there is no third result.
C1_Getters ==
    /\ C1_Examples
    /\ Called =>
        LET v == env[ret.key]
            r == ParseFor(ret.fn, v.val)
        IN  /\ ret.val = IF v.set /\ v.val # <<>> /\ r.ok THEN r.val ELSE ret.def
            /\ ret.val = ret.def \/ (r.ok /\ ret.val = r.val)

\* An int32 at the edge of its range was parsed, and is not the default.
C1_Witness ==
    /\ ret.fn = "GetEnvInt32"
    /\ env[ret.key] = Set(<<"-","2","1","4","7","4","8","3","6","4","8">>)
    /\ ret.val = IntOf(TRUE, <<"2","1","4","7","4","8","3","6","4","8">>)
    /\ ret.val # ret.def

-----------------------------------------------------------------------------
(* Claims C2, C3, C4: the request-logging middleware.                      *)

\* The completion lines of request r.
LinesOf(r) == {i \in 1..Len(logs) : logs[i].req = r /\ logs[i].msg = "request completed"}

\* How often event e is in the trace of request r.
Count(r, e) == Cardinality({i \in 1..Len(trace[r]) : trace[r][i] = e})

\* Request r went down the logging path (it was not skipped).
Logged(r) == pc[r] # "idle" /\ ~(mw.kind = "RequestLoggerWithOpts" /\ Skipped(req[r].path))

\* The logger was attached, then next was called, once.
AttachThenNext(r) ==
    /\ Len(trace[r]) >= 2
    /\ trace[r][1] = "attach"
    /\ trace[r][2] = "next"
    /\ Count(r, "next") = 1

\* C2 as claimed: every request that entered the logging path has the logger
\* attached before the one call of the next handler, and when the request is over
\* exactly one completion line was emitted for it, after the handler.
C2_OneCompletionLine ==
    \A r \in Reqs :
        Logged(r) =>
            /\ AttachThenNext(r)
            /\ pc[r] = "done" =>
                /\ Cardinality(LinesOf(r)) = 1
                /\ trace[r][Len(trace[r])] = "log"

\* The severity the policy gives a status.
PolicyLevel(status) ==
    CASE status >= 500                  -> "error"
      [] status >= 400 /\ status <= 499 -> "warn"
      [] OTHER                          -> "info"

\* C3: every completion line reports the status the wrapped writer captured (0
\* when the handler wrote none) at error severity for 500 and above, at warning
\* severity for 400..499 and at info severity otherwise.
C3_Severity ==
    \A i \in 1..Len(logs) :
        /\ logs[i].status = ww[logs[i].req].code
        /\ logs[i].level = PolicyLevel(logs[i].status)
        /\ logs[i].status = 200 => logs[i].level = "info"
        /\ logs[i].status = 404 => logs[i].level = "warn"
        /\ logs[i].status = 500 => logs[i].level = "error"
        /\ logs[i].status = 0 => logs[i].level = "info"

\* A 400 was logged at warning severity by the options variant, and a request
\* whose handler wrote nothing at info severity.
C3_Witness ==
    /\ mw.kind = "RequestLoggerWithOpts"
    /\ \E i, j \in 1..Len(logs) :
        /\ logs[i].status = 400 /\ logs[i].level = "warn"
        /\ logs[j].status = 0 /\ logs[j].level = "info" /\ ~ww[logs[j].req].wroteHeader

\* C4: with RequestLoggerWithOpts, a request on a skipped path reaches the next
\* handler with the writer and the context it came with (the logger in its
\* context is the one that was there before) and no line is emitted for it; a
\* request on another path gets the per-request logger and the wrapped writer,
\* and one completion line once its handler has returned.
C4_SkipPaths ==
    mw.kind = "RequestLoggerWithOpts" =>
        \A r \in Reqs :
            pc[r] # "idle" =>
                IF req[r].path \in mw.skipPaths
                THEN /\ LinesOf(r) = {}
                     /\ ctxLog[r] = req[r].prior
                     /\ ww[r].kind = "orig"
                     /\ Count(r, "attach") = 0
                     /\ Count(r, "next") = 1
                ELSE /\ ctxLog[r] = Logger("log", RequestID(req[r].rid), req[r].path, TRUE)
                     /\ ww[r].kind = "wrap"
                     /\ AttachThenNext(r)
                     /\ (pc[r] = "done" /\ Count(r, "panic") = 0)
                            => Cardinality(LinesOf(r)) = 1

\* A skipped request that came with an upstream logger is over, and the other
\* request, on another path, was logged.
C4_Witness ==
    /\ mw.kind = "RequestLoggerWithOpts"
    /\ \E r, q \in Reqs :
        /\ pc[r] = "done" /\ req[r].path \in mw.skipPaths
        /\ req[r].prior = Upstream /\ ctxLog[r] = Upstream
        /\ ww[r].wroteHeader
        /\ pc[q] = "done" /\ req[q].path \notin mw.skipPaths
        /\ LinesOf(q) # {}

-----------------------------------------------------------------------------
(* Claims C5, C6, C7: the JSON response helpers.                           *)

ErrorHelpers ==
    {"WriteError", "WriteBadRequest", "WriteUnauthorized", "WriteForbidden", "WriteNotFound",
     "WriteConflict", "WriteUnprocessable", "WriteInternalError", "WriteServiceUnavailable"}

DataHelpers == {"WriteData", "WriteDataWithMeta"}

\* The body of the last call could not be serialized.
EncodeFailed ==
    /\ call.fn \in DataHelpers \cup {"WriteJSON"}
    /\ call.data = "chan" \/ call.meta = "chan"

\* The status and the code of each error helper.
ExpectedStatus ==
    CASE call.fn = "WriteBadRequest"         -> 400
      [] call.fn = "WriteUnauthorized"       -> 401
      [] call.fn = "WriteForbidden"          -> 403
      [] call.fn = "WriteNotFound"           -> 404
      [] call.fn = "WriteConflict"           -> 409
      [] call.fn = "WriteUnprocessable"      -> 422
      [] call.fn = "WriteInternalError"      -> 500
      [] call.fn = "WriteServiceUnavailable" -> 503
      [] OTHER                               -> call.status

ExpectedCode ==
    CASE call.fn = "WriteBadRequest"         -> "bad_request"
      [] call.fn = "WriteUnauthorized"       -> "unauthorized"
      [] call.fn = "WriteForbidden"          -> "forbidden"
      [] call.fn = "WriteNotFound"           -> "not_found"
      [] call.fn = "WriteConflict"           -> "conflict"
      [] call.fn = "WriteUnprocessable"      -> "unprocessable_entity"
      [] call.fn = "WriteInternalError"      -> "internal_error"
      [] call.fn = "WriteServiceUnavailable" -> "service_unavailable"
      [] OTHER                               -> call.code

\* C5 as claimed: when the body cannot be serialized the client receives a
\* complete and consistent error response: the fixed error payload and nothing
\* else, as JSON, under the status of that payload, 500.
C5_FallbackConsistent ==
    EncodeFailed =>
        /\ resp.body = <<FallbackDoc>>
        /\ resp.sentType = "application/json"
        /\ resp.status = 500

\* C6 as claimed: every error response, from WriteError, a named wrapper or the
\* encode-failure fallback, carries a code, a message and the request ID.
C6_AlwaysRequestID ==
    (call.fn \in ErrorHelpers \/ EncodeFailed) =>
        /\ Len(resp.body) = 1
        /\ resp.body[1].error_code.present
        /\ resp.body[1].error_message.present
        /\ resp.body[1].request_id.present

\* C6, amended: an error response of WriteError or a named wrapper has the
\* helper's status and is the envelope with the code and the message given, and
\* with the request ID of the request exactly when that is not empty; the
\* encode-failure fallback carries the fixed code and message and no request ID.
C6_ErrorEnvelope ==
    /\ call.fn \in ErrorHelpers =>
        /\ resp.status = ExpectedStatus
        /\ resp.sentType = "application/json"
        /\ resp.body = << Doc(Absent, Absent, Absent,
                              IF call.rid = "" THEN Absent ELSE Field(call.rid),
                              Field(ExpectedCode), Field(call.message)) >>
    /\ EncodeFailed =>
        /\ Len(resp.body) = 1
        /\ resp.body[1].error_code = Field("internal_error")
        /\ resp.body[1].error_message = Field("failed to encode response")
        /\ ~resp.body[1].request_id.present

\* A named wrapper answered a request that has no request ID.
C6_Witness ==
    /\ call.fn = "WriteUnprocessable"
    /\ call.rid = ""
    /\ call.message = "invalid email"
    /\ resp.status = 422
    /\ resp.body[1].error_code.val = "unprocessable_entity"
    /\ ~resp.body[1].request_id.present

\* The success envelope with every member decided by its own rule.
IsEnvelope(d, hasData, hasMeta, hasID) ==
    /\ d.data.present = hasData
    /\ hasData => (MarshalValue(call.data).ok /\ d.data.val = MarshalValue(call.data).val)
    /\ d.meta.present = hasMeta
    /\ hasMeta => (MarshalValue(call.meta).ok /\ d.meta.val = MarshalValue(call.meta).val)
    /\ d.request_id.present = hasID
    /\ hasID => d.request_id.val = call.rid
    /\ ~d.raw.present /\ ~d.error_code.present /\ ~d.error_message.present

\* C7 as claimed: the envelope holds data for every payload, meta exactly when a
\* meta value was supplied, request_id exactly when the request ID is not empty.
C7_DataAlways ==
    call.fn \in DataHelpers =>
        /\ resp.status = call.status
        /\ Len(resp.body) = 1
        /\ IsEnvelope(resp.body[1], TRUE,
                      call.fn = "WriteDataWithMeta" /\ call.meta # "nil", call.rid # "")

\* C7, amended: WriteData and WriteDataWithMeta write the given status; when
\* payload and meta can be encoded the body is one success envelope that holds
\* data exactly when the payload is not nil, meta exactly when a meta that is not
\* nil was supplied, request_id exactly when the request ID is not empty, and no
\* other member; when they cannot, the body is the fixed error payload.
C7_Envelope ==
    call.fn \in DataHelpers =>
        /\ resp.status = call.status
        /\ Len(resp.body) = 1
        /\ IF EncodeFailed
           THEN resp.body[1] = FallbackDoc
           ELSE IsEnvelope(resp.body[1], call.data # "nil",
                           call.fn = "WriteDataWithMeta" /\ call.meta # "nil",
                           call.rid # "")

\* A created resource was answered with data, meta and the request ID.
C7_Witness ==
    /\ call.fn = "WriteDataWithMeta"
    /\ call.status = 201 /\ call.data = "obj" /\ call.meta = "empty" /\ call.rid = "id-1"
    /\ resp.body[1].data = Field("{\"id\":\"1\"}")
    /\ resp.body[1].meta = Field("[]")
    /\ resp.body[1].request_id = Field("id-1")

-----------------------------------------------------------------------------
(* Claim C8: NewServer and the logger.                                     *)

-----------------------------------------------------------------------------
(* Claims C9 and C10: the logging interceptors.                            *)

GrpcLinesOf(c) == SelectSeq(grpcLogs, LAMBDA l : l.call = c)

\* The first x-request-id value of a call's metadata, "" without one.
FirstRequestID(c) ==
    IF rpc[c].ctx.hasMD /\ rpc[c].ctx.vals # <<>> THEN Head(rpc[c].ctx.vals) ELSE ""

\* C9: an interceptor calls the handler once; nothing is logged for a call
\* whose handler has not returned; once the handler has returned, with nil or
\* an error, and the interceptor has finished, exactly one line was written
\* for the call, after the return, and its request_id is the first
\* x-request-id value of the incoming metadata, or "" when the metadata or the
\* key is absent.
C9_OneLinePerCall ==
    \A c \in Calls :
        /\ handlerCalls[c] = IF rpcPc[c] = "idle" THEN 0 ELSE 1
        /\ rpcPc[c] \in {"idle", "handler", "returned"} => GrpcLinesOf(c) = <<>>
        /\ rpcPc[c] = "done" =>
              /\ Len(GrpcLinesOf(c)) = 1
              /\ rpcTrace[c] = <<"handler", "returned", "log">>
              /\ GrpcLinesOf(c)[1].request_id = FirstRequestID(c)
              /\ GrpcLinesOf(c)[1].msg = "grpc request"

\* A unary call that failed and a stream call that succeeded are both done,
\* one with two x-request-id values and one with no metadata.
C9_Witness ==
    \E c, d \in Calls :
        /\ rpcPc[c] = "done" /\ rpcPc[d] = "done"
        /\ rpc[c].kind = "unary" /\ rpc[d].kind = "stream"
        /\ rpcErr[c] = "Internal" /\ rpcErr[d] = "nil"
        /\ rpc[c].ctx.vals = <<"id-1", "id-2">>
        /\ ~rpc[d].ctx.hasMD
        /\ GrpcLinesOf(c)[1].request_id = "id-1"
        /\ GrpcLinesOf(d)[1].request_id = ""

\* The severity of each status code.
SeverityOf(code) ==
    IF code = "OK" THEN "info"
    ELSE IF code \in {"Canceled", "DeadlineExceeded", "InvalidArgument", "NotFound",
                      "AlreadyExists", "PermissionDenied", "Unauthenticated",
                      "FailedPrecondition", "ResourceExhausted", "Aborted",
                      "OutOfRange"}
         THEN "warn"
    ELSE "error"

\* C10: every line carries the status code of the handler's result and the
\* severity of that code: info for OK, warn for Canceled, DeadlineExceeded and
\* the client-fault codes, error for every other code; a unary and a stream
\* call with the same code log at the same level.
C10_SeverityByCode ==
    /\ \A code \in GrpcCodes : eventForCode(code) = SeverityOf(code)
    /\ \A i \in 1..Len(grpcLogs) :
          /\ grpcLogs[i].grpc_code = StatusCode(rpcErr[grpcLogs[i].call])
          /\ grpcLogs[i].level = SeverityOf(grpcLogs[i].grpc_code)
    /\ \A i, j \in 1..Len(grpcLogs) :
          grpcLogs[i].grpc_code = grpcLogs[j].grpc_code =>
              grpcLogs[i].level = grpcLogs[j].level

\* A unary and a stream call were both cancelled and both logged at warn.
C10_Witness ==
    \E i, j \in 1..Len(grpcLogs) :
        /\ grpcLogs[i].kind = "unary" /\ grpcLogs[j].kind = "stream"
        /\ grpcLogs[i].grpc_code = "Canceled" /\ grpcLogs[j].grpc_code = "Canceled"
        /\ grpcLogs[i].level = "warn" /\ grpcLogs[j].level = "warn"

-----------------------------------------------------------------------------
(* Claim C11: the logging interceptors and the caller's interceptors.      *)

Range(s) == { s[i] : i \in 1..Len(s) }

\* The interceptors that run for a call that interceptor i of a chain
\* rejects: the chain up to and including it.  The ones behind it never see
\* the call.
RunsWhenRejectedAt(chain, i) == SubSeq(chain, 1, i)

\* C11: in the server NewServer returns, the logging interceptor runs for
\* every call a caller-supplied interceptor rejects, unary and stream alike,
\* however the caller supplied it.
C11_LoggingOutermost ==
    result.returned /\ result.s.built =>
        /\ \A i \in 1..Len(result.s.unaryChain) :
              result.s.unaryChain[i] = "caller" =>
                  "UnaryLoggingInterceptor"
                      \in Range(RunsWhenRejectedAt(result.s.unaryChain, i))
        /\ \A i \in 1..Len(result.s.streamChain) :
              result.s.streamChain[i] = "caller" =>
                  "StreamLoggingInterceptor"
                      \in Range(RunsWhenRejectedAt(result.s.streamChain, i))

-----------------------------------------------------------------------------
(* Claim C12: postgres.Open.                                               *)

\* C12: Open returns the pool with no error, or no pool with an error that
\* names the step that failed; the pool it returns is open; a pool it does not
\* return was never created or was closed exactly once; and Open calls
\* ParseConfig, NewWithConfig and Ping at most once each.
C12_OpenOrCleanUp ==
    /\ pgCalls.ParseConfig <= 1 /\ pgCalls.NewWithConfig <= 1 /\ pgCalls.Ping <= 1
    /\ pool.closed <= 1
    /\ pgStep = "done" <=> pgResult.returned
    /\ pgResult.returned =>
          /\ pgResult.pool <=> pgResult.err = <<>>
          /\ pgResult.pool => pool.created /\ pool.closed = 0 /\ pgCalls.Ping = 1
          /\ ~pgResult.pool =>
                /\ pgResult.err[1] \in {"parsing postgres config",
                                        "creating postgres pool", "pinging postgres"}
                /\ pool.created => pool.closed = 1
                /\ pgResult.err[1] = "pinging postgres" <=> pool.created
                /\ pgResult.err[1] = "parsing postgres config"
                      <=> pgCalls.NewWithConfig = 0

\* Open has closed a pool whose ping failed, and returned the ping error.
C12_Witness ==
    /\ pgResult.returned
    /\ ~pgResult.pool
    /\ pool.created
    /\ pool.closed = 1
    /\ pgResult.err = <<"pinging postgres", "cannot ping">>
    /\ poolCfg.MaxConns = 20

-----------------------------------------------------------------------------
(* Claims C13 and C14: loggers in contexts.                                *)

\* The contexts of the chain of context i, itself included.
RECURSIVE ChainOf(_)
ChainOf(i) == IF i = Background THEN {} ELSE {i} \cup ChainOf(nodes[i].parent)

\* The contexts of a chain that attach a logger.
AttachedIn(i) == { j \in ChainOf(i) : nodes[j].key = "ctxKey" }

\* C13: From on any context returns the logger attached last on its chain,
\* and a no-op logger, which is a logger like any other and not the zero
\* value, when the chain attaches none.
C13_MostRecent ==
    \A i \in 0..Len(nodes) :
        /\ AttachedIn(i) = {} => From(nodes, i) = NopLogger
        /\ AttachedIn(i) # {} =>
              \E j \in AttachedIn(i) :
                  /\ \A k \in AttachedIn(i) : k <= j
                  /\ From(nodes, i) = nodes[j].val
        /\ From(nodes, i) \in Loggers \cup { nodes[j].val : j \in 1..Len(nodes) }
        /\ From(nodes, i) # ZeroLogger

\* A context whose chain attaches two loggers and then another package's
\* value returns the later logger, and the background context returns the
\* no-op logger.
C13_Witness ==
    \E i \in 1..Len(nodes), j \in 0..Len(nodes) :
        /\ Cardinality(AttachedIn(i)) = 2
        /\ nodes[i].key = "otherKey"
        /\ From(nodes, i).context = <<"time", "service", "request_id=id-1">>
        /\ AttachedIn(j) = {}
        /\ From(nodes, j) = NopLogger

\* C14: a derivation adds one context and changes no other: every context
\* that existed, the parent and the contexts of the other request included,
\* is the same afterwards and From returns for it the logger it returned
\* before; only the new context sees the derived logger, which for WithFields
\* and WithRequestID is the parent's logger with the new fields added, and
\* for a value of another package the parent's logger itself.
C14_Frame ==
    [][ /\ Len(nodes') = Len(nodes) + 1
        /\ SubSeq(nodes', 1, Len(nodes)) = nodes
        /\ \A i \in 0..Len(nodes) : From(nodes', i) = From(nodes, i)
        /\ derived'.child = Len(nodes')
        /\ nodes'[derived'.child].parent = derived'.parent
        /\ derived'.fn \in {"With", "WithFields", "WithRequestID", "RequestLogger"} =>
              From(nodes', derived'.child) = nodes'[derived'.child].val
        /\ derived'.fn \in {"WithFields", "WithRequestID"} =>
              /\ From(nodes', derived'.child).w = From(nodes, derived'.parent).w
              /\ From(nodes', derived'.child).level = From(nodes, derived'.parent).level
              /\ Len(From(nodes', derived'.child).context)
                    > Len(From(nodes, derived'.parent).context)
              /\ SubSeq(From(nodes', derived'.child).context, 1,
                        Len(From(nodes, derived'.parent).context))
                    = From(nodes, derived'.parent).context
        /\ derived'.fn = "WithValue" =>
              From(nodes', derived'.child) = From(nodes, derived'.parent)
      ]_vars

\* Two requests have each derived a logger from the shared base context: each
\* sees its own, and the base context still carries the service's logger.
C14_Witness ==
    \E i, j \in 2..Len(nodes) :
        /\ nodes[1].owner = "shared"
        /\ nodes[i].owner = "q1" /\ nodes[j].owner = "q2"
        /\ nodes[i].parent = 1 /\ nodes[j].parent = 1
        /\ From(nodes, 1) = ServiceLogger
        /\ From(nodes, i).context = <<"time", "service", "user", "tenant">>
        /\ From(nodes, j).context = <<"time", "service", "request_id=id-1">>

-----------------------------------------------------------------------------
(* Claim C15: NewRouter.                                                   *)

\* The middlewares of a list of options, in argument order.
RECURSIVE MiddlewaresOf(_)
MiddlewaresOf(os) ==
    IF os = <<>> THEN <<>> ELSE Head(os).uses \o MiddlewaresOf(Tail(os))

\* C15: from its first step on, the mux starts with request-ID injection,
\* real-IP resolution and panic recovery, whatever the options; the options
\* are applied once each, in the order given; and the mux NewRouter returns
\* has the three defaults followed by the options' middlewares in argument
\* order, a repeated option's middleware behind (inside) its earlier one.
C15_DefaultsThenOptions ==
    /\ rtStep # "start" =>
          /\ Len(mux.middlewares) >= 3
          /\ SubSeq(mux.middlewares, 1, 3) = <<"RequestID", "RealIP", "Recoverer">>
    /\ applied = [i \in 1..Len(applied) |-> i]
    /\ Len(applied) <= Len(routerOpts)
    /\ mux.middlewares =
          IF rtStep = "start" THEN <<>>
          ELSE <<"RequestID", "RealIP", "Recoverer">>
               \o MiddlewaresOf(SubSeq(routerOpts, 1, Len(applied)))
    /\ rtResult <=> rtStep = "done"
    /\ rtResult => Len(applied) = Len(routerOpts)

\* NewRouter has returned a mux with two timeouts, the second inside the first.
C15_Witness ==
    /\ rtResult
    /\ routerOpts = <<WithTimeout("30s"), WithTimeout("5s")>>
    /\ mux.middlewares =
          <<"RequestID", "RealIP", "Recoverer", "Timeout(30s)", "Timeout(5s)">>

-----------------------------------------------------------------------------
(* Claim C16: the optional features of NewServer.                          *)

\* C16: whatever NewServer does beyond the logger check comes after the two
\* logging interceptors were set up; in the server it builds and returns, the
\* health service is registered exactly when EnableHealth is set, reflection
\* exactly when EnableReflection is set, and the OpenTelemetry stats handler
\* is installed exactly when EnableOTel is set, each whatever the other two
\* are; and a server that has the health service reports SERVING for the
\* empty service name.
C16_IndependentFeatures ==
    /\ effects # <<>> =>
          /\ Len(effects) >= 2
          /\ SubSeq(effects, 1, 2) = <<"ChainUnaryInterceptor", "ChainStreamInterceptor">>
    /\ "grpc.health.v1.Health" \in server.services => server.health = "SERVING"
    /\ "grpc.health.v1.Health" \notin server.services => server.health = ""
    /\ result.returned /\ result.s.built =>
          /\ "grpc.health.v1.Health" \in result.s.services <=> opts.EnableHealth
          /\ "grpc.reflection.v1.ServerReflection" \in result.s.services
                <=> opts.EnableReflection
          /\ "otelgrpc.NewServerHandler" \in Range(result.s.statsHandlers)
                <=> opts.EnableOTel
          /\ opts.EnableHealth => result.s.health = "SERVING"

\* NewServer has returned a server with health and OpenTelemetry but without
\* reflection.
C16_Witness ==
    /\ result.returned
    /\ opts.EnableHealth /\ ~opts.EnableReflection /\ opts.EnableOTel
    /\ result.s.services = {"grpc.health.v1.Health"}
    /\ result.s.health = "SERVING"
    /\ result.s.statsHandlers = <<"otelgrpc.NewServerHandler">>
    /\ effects = <<"ChainUnaryInterceptor", "ChainStreamInterceptor",
                   "OTELServerOptions", "grpc.NewServer", "RegisterHealthServer",
                   "SetServingStatus">>

====
